---- MODULE Spec2Model ----
(***************************************************************************)
(* Model of the app-migration orchestrator of packages/.../utils.ts        *)
(* (lines 426-469): one process-wide queue (appMigrationQueue), its        *)
(* consumer registration (init), the handler (processMessage) and the      *)
(* alert hook (removeStalledCb).                                           *)
(*                                                                         *)
(* The queue implementation (queue.BudibaseQueue of @budibase/backend-core)*)
(* and the Runner (processMigrations of ./migrationsProcessor) are not     *)
(* part of the sources at hand; their behaviour is taken from the          *)
(* specification, sections 4.1-4.5, 5 and 7.                               *)
(*                                                                         *)
(* The same file holds two utilities, modelled from their code: sequential *)
(* (lines 20-53), which runs the invocations of an async function one      *)
(* after the other, and throttle (lines 91-112), which spaces the          *)
(* invocations of a callback by minDelay.                                  *)
(***************************************************************************)
EXTENDS Integers, Sequences, FiniteSets, TLC

VARIABLES
    concurrency,   \* consumer slots registered by init(); 0 before init()
    jobs,          \* the queue's job records, in order of admission
    runs,          \* per job: the Runner invocation of its current attempt
    appliedIds,    \* per tenant: the persisted TenantMigrationState
    registry,      \* the Migration Registry: ids in application order
    alerts,        \* what the alert hook has logged: id and reason
    applied,       \* history, per tenant and id: times the step was applied,
                   \* counted up to MaxApplied
    midStep,       \* history, per tenant: a run died between apply and persist
    activations,   \* history, per job: number of Waiting -> Active claims
    holders,       \* history, per job: consumers currently holding the job
    requeues,      \* history, per job: stall re-queues Active -> Waiting
    interrupted,   \* history, per tenant: a run died between two steps
    jobLimit,      \* environment: number of enqueues the producers make
    appIds,        \* environment: tenants the producers enqueue for
    perTenant,     \* environment: number of enqueues per tenant
    failsLeft,     \* environment: step failures still to be injected
    stallsLeft,    \* environment: worker deaths still to be injected
    steps,         \* result of the last stepsFor query, with its argument
    queue,         \* sequential: the wrapper's queue of pending closures
    calls,         \* sequential: per wrapper call, its params, the state of
                   \* its invocation of fn and of the promise it returned
    started,       \* history: the invocations of fn, in the order they began
    lastParams,    \* throttle: params of the latest invoke
    stalled,       \* throttle: a callback ran less than minDelay ago
    pending,       \* throttle: an invoke arrived while stalled
    timers,        \* throttle: setTimeout timers armed and not yet expired
    stack,         \* throttle: callback invocations that have not returned
    invoked,       \* history: params of the caller's invoke calls, in order
    callbacks,     \* history: the callback invocations, in order
    expiries       \* history: number of timers that have expired

\* The scenario: fixed once the system is started.
env == <<registry, jobLimit, appIds, perTenant>>

\* The state of the migration queue, of a sequential wrapper and of a
\* throttle wrapper.
queueVars == <<concurrency, jobs, runs, appliedIds, alerts, applied, midStep,
               activations, holders, requeues, interrupted, failsLeft,
               stallsLeft, steps>>

sequentialVars == <<queue, calls, started>>

throttleVars == <<lastParams, stalled, pending, timers, stack, invoked,
                  callbacks, expiries>>

utils == <<sequentialVars, throttleVars>>

vars == <<concurrency, jobs, runs, appliedIds, registry, alerts, applied,
          midStep, activations, holders, requeues, interrupted, jobLimit, appIds,
          perTenant, failsLeft, stallsLeft, steps, utils>>

----------------------------------------------------------------------------
(* Program constants *)

MAX_ATTEMPTS == 3

MIGRATION_CONCURRENCY == 5

\* jobOptions: { attempts: MAX_ATTEMPTS, ... }
JobOptionsAttempts_Short == MAX_ATTEMPTS - 1

\* attempts taken for the number of retries after the first attempt.
JobOptionsAttempts_Long == MAX_ATTEMPTS + 1

JobOptionsAttempts == MAX_ATTEMPTS

\* maxStalledCount: MAX_ATTEMPTS
maxStalledCount_Short == MAX_ATTEMPTS - 1

maxStalledCount == MAX_ATTEMPTS

----------------------------------------------------------------------------
(* Bounds of the model *)

\* Overlap scenario: jobs of one tenant, and the faults injected of each kind.
MaxJobs == 2

MaxFaults == 1

\* Retry scenario: jobs, step failures and worker deaths.
RetryJobs == 1

MaxFails == 3

MaxStalls == 4

\* Load scenario: jobs (one per tenant), step failures and worker deaths.
MaxLoadJobs == 6

LoadFails == 3

LoadStalls == 1

\* Registry scenario: ids a registry is drawn from.
MaxIds == 4

\* Sequential scenario: calls made to the wrapper.
MaxCalls == 3

\* Throttle scenario: invoke calls made by the callers.
MaxInvokes == 3

\* The applications of a step are counted up to this number.
MaxApplied == 2

\* Every tenant of every scenario: the load scenario has a tenant per job.
Tenants == 1..MaxLoadJobs

Ids == 1..MaxIds

----------------------------------------------------------------------------
(* Values *)

\* job.failedReason: "none", "step" (a migration step raised an error),
\* "conflict" (StaleStateConflict) or "stalled".
NoReason == "none"

\* A job that is not being processed has no Runner invocation.
NoRun == [todo |-> <<>>, phase |-> "none"]

Range(s) == {s[i] : i \in 1..Len(s)}

InjectiveSeqs(S) ==
    {s \in UNION {[1..n -> S] : n \in 0..Cardinality(S)} :
        \A i, j \in 1..Len(s) : i # j => s[i] # s[j]}

ActiveJobs == {j \in 1..Len(jobs) : jobs[j].status = "Active"}

----------------------------------------------------------------------------
(* Migration Registry (specification 4.1) *)

\* A stepsFor that orders the missing ids by value, not by registration.
stepsFor_ById(reg, state) ==
    LET missing == Range(reg) \ state
        pick[S \in SUBSET missing] ==
            IF S = {} THEN <<>>
            ELSE LET m == CHOOSE x \in S : \A y \in S : x <= y
                 IN  <<m>> \o pick[S \ {m}]
    IN  pick[missing]

\* A stepsFor that ignores the state: every definition, each time.
stepsFor_All(reg, state) == reg

\* Every definition whose id is not yet in appliedIds, in registration order.
stepsFor(reg, state) == SelectSeq(reg, LAMBDA id : id \notin state)

----------------------------------------------------------------------------
(* Migration Runner (specification 4.2): processMigrations(appId) *)

\* Steps 1 and 2: load the tenant's state, ask the Registry for the steps.
processMigrations(appId) ==
    [todo |-> stepsFor(registry, appliedIds[appId]), phase |-> "apply"]

\* The state a run believes to be persisted: what it loaded plus what it did.
LocalState(run) == Range(registry) \ Range(run.todo)

\* A persist that stores the latest id in place of the set.
persist_Latest(run, state) == {Head(run.todo)}

\* Step 3: append this migration id to the persisted state.
persist(run, state) == state \cup {Head(run.todo)}

----------------------------------------------------------------------------
(* Dispatcher: utils.ts *)

\* async function processMessage(job) { await processMigrations(job.data.appId) }
processMessage(job) == processMigrations(job.appId)

\* A hook that logs nothing.
removeStalledCb_Silent(job) == alerts

\* removeStalledCb: logging.logAlert(`... ${job.id} - reason: ${job.failedReason}`)
removeStalledCb(job) == alerts \cup {[id |-> job.id, reason |-> job.failedReason]}

\* A registration with one slot too many.
init_Wide ==
    /\ concurrency = 0
    /\ concurrency' = MIGRATION_CONCURRENCY + 1
    /\ UNCHANGED <<env, utils, jobs, runs, appliedIds, alerts, applied, midStep,
                   activations, holders, requeues, interrupted, failsLeft,
                   stallsLeft, steps>>

\* init(): appMigrationQueue.process(MIGRATION_CONCURRENCY, processMessage)
init ==
    /\ concurrency = 0
    /\ concurrency' = MIGRATION_CONCURRENCY
    /\ UNCHANGED <<env, utils, jobs, runs, appliedIds, alerts, applied, midStep,
                   activations, holders, requeues, interrupted, failsLeft,
                   stallsLeft, steps>>

----------------------------------------------------------------------------
(* Job Queue (specification 4.3) *)

\* enqueue(tenantId): a new, independent job in Waiting state. Tenant ids are
\* opaque: they are numbered in the order the producers first use them.
Enqueue(t) ==
    /\ Len(jobs) < jobLimit
    /\ t \in appIds
    /\ t <= Cardinality({jobs[i].appId : i \in 1..Len(jobs)}) + 1
    /\ Cardinality({i \in 1..Len(jobs) : jobs[i].appId = t}) < perTenant
    /\ jobs' = Append(jobs, [id |-> Len(jobs) + 1, appId |-> t,
                             status |-> "Waiting", attemptsMade |-> 0,
                             stalledCounter |-> 0, failedReason |-> NoReason])
    /\ runs' = Append(runs, NoRun)
    /\ activations' = Append(activations, 0)
    /\ holders' = Append(holders, 0)
    /\ requeues' = Append(requeues, 0)
    /\ UNCHANGED <<env, utils, concurrency, appliedIds, alerts, applied, midStep,
                   interrupted, failsLeft, stallsLeft, steps>>

\* A claim that hands the job to the handler but leaves it Waiting.
Claim_NoMark(j) ==
    /\ j \in 1..Len(jobs)
    /\ jobs[j].status = "Waiting"
    /\ Cardinality(ActiveJobs) < concurrency
    /\ runs' = [runs EXCEPT ![j] = processMessage(jobs[j])]
    /\ activations' = [activations EXCEPT ![j] = @ + 1]
    /\ holders' = [holders EXCEPT ![j] = @ + 1]
    /\ UNCHANGED <<env, utils, concurrency, jobs, appliedIds, alerts, applied,
                   midStep, requeues, interrupted, failsLeft, stallsLeft,
                   steps>>

\* A claim that takes any job no consumer holds, finished ones included.
Claim_Any(j) ==
    /\ j \in 1..Len(jobs)
    /\ jobs[j].status # "Active"
    /\ Cardinality(ActiveJobs) < concurrency
    /\ jobs' = [jobs EXCEPT ![j].status = "Active"]
    /\ runs' = [runs EXCEPT ![j] = processMessage(jobs[j])]
    /\ activations' = [activations EXCEPT ![j] = @ + 1]
    /\ holders' = [holders EXCEPT ![j] = @ + 1]
    /\ UNCHANGED <<env, utils, concurrency, appliedIds, alerts, applied, midStep,
                   requeues, interrupted, failsLeft, stallsLeft, steps>>

\* Waiting -> Active: a consumer with a free slot claims the job, atomically,
\* and the handler starts.
Claim(j) ==
    /\ j \in 1..Len(jobs)
    /\ jobs[j].status = "Waiting"
    /\ Cardinality(ActiveJobs) < concurrency
    /\ jobs' = [jobs EXCEPT ![j].status = "Active"]
    /\ runs' = [runs EXCEPT ![j] = processMessage(jobs[j])]
    /\ activations' = [activations EXCEPT ![j] = @ + 1]
    /\ holders' = [holders EXCEPT ![j] = @ + 1]
    /\ UNCHANGED <<env, utils, concurrency, appliedIds, alerts, applied, midStep,
                   requeues, interrupted, failsLeft, stallsLeft, steps>>

\* Retry policy: the handler of job j failed with the given reason.
HandlerFailed(j, reason) ==
    LET made == jobs[j].attemptsMade + 1
        job  == [jobs[j] EXCEPT !.attemptsMade = made, !.failedReason = reason]
    IN  /\ runs' = [runs EXCEPT ![j] = NoRun]
        /\ holders' = [holders EXCEPT ![j] = @ - 1]
        /\ IF made < JobOptionsAttempts
           THEN /\ jobs' = [jobs EXCEPT ![j] = [job EXCEPT !.status = "Waiting"]]
                /\ alerts' = alerts
           ELSE /\ jobs' = [jobs EXCEPT ![j] = [job EXCEPT !.status = "Failed"]]
                /\ alerts' = removeStalledCb(job)

\* Handler success: the job completes (and, removeOnComplete, leaves the queue).
Complete(j) ==
    /\ j \in ActiveJobs
    /\ runs[j].phase = "apply"
    /\ runs[j].todo = <<>>
    /\ jobs' = [jobs EXCEPT ![j].status = "Completed"]
    /\ runs' = [runs EXCEPT ![j] = NoRun]
    /\ holders' = [holders EXCEPT ![j] = @ - 1]
    /\ UNCHANGED <<env, utils, concurrency, appliedIds, alerts, applied, midStep,
                   activations, requeues, interrupted, failsLeft,
                   stallsLeft, steps>>

\* Stalled-job detection: the worker holding job j died; the job is re-queued
\* up to maxStalledCount times and marked Stalled after that.
StalledCheck(j) ==
    LET count == jobs[j].stalledCounter + 1
        t     == jobs[j].appId
    IN  /\ j \in ActiveJobs
        /\ stallsLeft > 0
        /\ stallsLeft' = stallsLeft - 1
        /\ runs' = [runs EXCEPT ![j] = NoRun]
        /\ holders' = [holders EXCEPT ![j] = @ - 1]
        /\ midStep' = [midStep EXCEPT ![t] = @ \/ runs[j].phase = "persist"]
        /\ interrupted' = [interrupted EXCEPT ![t] =
                              @ \/ (runs[j].phase = "apply" /\ runs[j].todo # <<>>
                                    /\ LocalState(runs[j]) # {})]
        /\ IF count > maxStalledCount
           THEN LET job == [jobs[j] EXCEPT !.stalledCounter = count,
                                           !.failedReason = "stalled"]
                IN  /\ jobs' = [jobs EXCEPT ![j] = [job EXCEPT !.status = "Stalled"]]
                    /\ alerts' = removeStalledCb(job)
                    /\ requeues' = requeues
           ELSE /\ jobs' = [jobs EXCEPT ![j].stalledCounter = count,
                                        ![j].status = "Waiting"]
                /\ alerts' = alerts
                /\ requeues' = [requeues EXCEPT ![j] = @ + 1]
        /\ UNCHANGED <<env, utils, concurrency, appliedIds, applied, activations,
                   failsLeft, steps>>

----------------------------------------------------------------------------
(* The Runner's steps inside an Active job *)

\* Step 3, first half: the next step is applied to the tenant's data.
RunnerApply(j) ==
    /\ j \in ActiveJobs
    /\ runs[j].phase = "apply"
    /\ runs[j].todo # <<>>
    /\ applied' = [applied EXCEPT ![jobs[j].appId][Head(runs[j].todo)] =
                                       IF @ < MaxApplied THEN @ + 1 ELSE @]
    /\ runs' = [runs EXCEPT ![j].phase = "persist"]
    /\ UNCHANGED <<env, utils, concurrency, jobs, appliedIds, alerts, midStep,
                   activations, holders, requeues, interrupted, failsLeft,
                   stallsLeft, steps>>

\* Step 3, second half: the id of the applied step is persisted at once. An
\* id that an overlapping run has persisted meanwhile is a StaleStateConflict,
\* surfaced as a step failure.
RunnerPersist(j) ==
    LET t  == jobs[j].appId
        id == Head(runs[j].todo)
    IN  /\ j \in ActiveJobs
        /\ runs[j].phase = "persist"
        /\ IF id \in appliedIds[t]
           THEN /\ HandlerFailed(j, "conflict")
                /\ UNCHANGED appliedIds
           ELSE /\ appliedIds' = [appliedIds EXCEPT ![t] = persist(runs[j], @)]
                /\ runs' = [runs EXCEPT ![j] = [todo |-> Tail(@.todo),
                                                phase |-> "apply"]]
                /\ UNCHANGED <<jobs, alerts, holders>>
        /\ UNCHANGED <<env, utils, concurrency, applied, midStep, activations,
                   requeues, interrupted, failsLeft, stallsLeft, steps>>

\* Step 4: the next step fails; the run stops and the handler fails.
StepFail(j) ==
    /\ j \in ActiveJobs
    /\ runs[j].phase = "apply"
    /\ runs[j].todo # <<>>
    /\ failsLeft > 0
    /\ failsLeft' = failsLeft - 1
    /\ HandlerFailed(j, "step")
    /\ UNCHANGED <<env, utils, concurrency, appliedIds, applied, midStep,
                   activations, requeues, interrupted, stallsLeft, steps>>

----------------------------------------------------------------------------
(* sequential (utils.ts:20-53): the wrapper `result`, the closure it     *)
(* queues, and fn, which the environment settles.                         *)

\* JavaScript values, written as their literals.
Falsy == {"undefined", "null", "false", "0", "''"}

Truthy(v) == v \notin Falsy

undefined == "undefined"

\* What the callers pass, what fn returns and what fn rejects with.
SeqParams == {"a", "b"}

ReturnValues == {"data"}

RejectionValues == {"Error", "0"}

FnSettled == {"fulfilled", "rejected"}

InFlight == {c \in 1..Len(calls) : calls[c].fn = "running"}

\* When a call is made: with nothing queued, while fn is in flight, or after
\* fn settled and before the closure went on.
Moment ==
    IF queue = <<>> THEN "idle"
    ELSE IF calls[Head(queue)].fn = "running" THEN "pending" ELSE "completion"

\* queue[0](): the closure of call c begins and calls fn(...params).
Begin(cs, c) == [cs EXCEPT ![c].fn = "running"]

Begun(cs, c) == Append(started, [call |-> c, params |-> cs[c].params])

\* if (error) reject(error) else resolve(data!)
Settle(error, data) ==
    IF Truthy(error)
    THEN [promise |-> "rejected", value |-> error]
    ELSE [promise |-> "resolved", value |-> data]

\* The wrapper starts fn whatever is queued.
result_Eager(params) ==
    LET c    == Len(calls) + 1
        call == [params |-> params, fn |-> "idle", value |-> undefined,
                 promise |-> "pending", settled |-> undefined, at |-> Moment]
    IN  /\ Len(calls) < MaxCalls
        /\ queue' = Append(queue, c)
        /\ calls' = Begin(Append(calls, call), c)
        /\ started' = Begun(Append(calls, call), c)
        /\ UNCHANGED <<env, queueVars, throttleVars>>

\* result(...params): push the closure; start it if it is alone in the queue.
result(params) ==
    LET c    == Len(calls) + 1
        call == [params |-> params, fn |-> "idle", value |-> undefined,
                 promise |-> "pending", settled |-> undefined, at |-> Moment]
    IN  /\ Len(calls) < MaxCalls
        /\ queue' = Append(queue, c)
        /\ IF Len(queue') = 1
           THEN /\ calls' = Begin(Append(calls, call), Head(queue'))
                /\ started' = Begun(Append(calls, call), Head(queue'))
           ELSE /\ calls' = Append(calls, call)
                /\ started' = started
        /\ UNCHANGED <<env, queueVars, throttleVars>>

\* await fn(...params): the promise of the invocation for call c settles.
FnSettles(c, outcome, value) ==
    /\ c \in InFlight
    /\ calls' = [calls EXCEPT ![c].fn = outcome, ![c].value = value]
    /\ UNCHANGED <<env, queueVars, throttleVars, queue, started>>

\* A rejected invocation leaves its closure at the head of the queue.
Resume_Stuck ==
    /\ queue # <<>>
    /\ LET c       == Head(queue)
           rejected == calls[c].fn = "rejected"
           data    == IF rejected THEN undefined ELSE calls[c].value
           error   == IF rejected THEN calls[c].value ELSE undefined
           out     == Settle(error, data)
           settled == [calls EXCEPT ![c].promise = out.promise,
                                    ![c].settled = out.value]
       IN  /\ calls[c].fn \in FnSettled
           /\ calls[c].promise = "pending"
           /\ queue' = IF rejected THEN queue ELSE Tail(queue)
           /\ IF queue' # <<>> /\ ~rejected
              THEN /\ calls' = Begin(settled, Head(queue'))
                   /\ started' = Begun(settled, Head(queue'))
              ELSE /\ calls' = settled
                   /\ started' = started
    /\ UNCHANGED <<env, queueVars, throttleVars>>

\* After the await: the closure at the head leaves the queue, starts the next
\* one, and settles the promise of its call.
Resume ==
    /\ queue # <<>>
    /\ LET c       == Head(queue)
           rejected == calls[c].fn = "rejected"
           data    == IF rejected THEN undefined ELSE calls[c].value
           error   == IF rejected THEN calls[c].value ELSE undefined
           out     == Settle(error, data)
           settled == [calls EXCEPT ![c].promise = out.promise,
                                    ![c].settled = out.value]
       IN  /\ calls[c].fn \in FnSettled
           /\ calls[c].promise = "pending"
           /\ queue' = Tail(queue)
           /\ IF queue' # <<>>
              THEN /\ calls' = Begin(settled, Head(queue'))
                   /\ started' = Begun(settled, Head(queue'))
              ELSE /\ calls' = settled
                   /\ started' = started
    /\ UNCHANGED <<env, queueVars, throttleVars>>

----------------------------------------------------------------------------
(* throttle (utils.ts:91-112): the wrapper `invoke`, its timer, and the   *)
(* callback, which is the caller's code: it returns or throws, and it may *)
(* itself call invoke before it does.                                     *)

\* What the callers pass.
ThrottleParams == {"x", "y"}

\* callback(...lastParams), by invoke or by the timer, after n invoke calls.
callback(params, via, n) ==
    Append(callbacks,
           [params |-> params, via |-> via, n |-> n, expiries |-> expiries'])

\* An invoke that arrives while stalled leaves lastParams alone.
invoke_Stale(params) ==
    /\ Len(invoked) < MaxInvokes
    /\ invoked' = Append(invoked, params)
    /\ lastParams' = IF stalled THEN lastParams ELSE params
    /\ UNCHANGED <<env, queueVars, sequentialVars, stalled, timers, expiries>>
    /\ IF stalled
       THEN /\ pending' = TRUE
            /\ UNCHANGED <<callbacks, stack>>
       ELSE /\ callbacks' = callback(lastParams', "invoke", Len(invoked'))
            /\ stack' = stack + 1
            /\ pending' = pending

\* invoke(...params), up to the call of the callback.
invoke(params) ==
    /\ Len(invoked) < MaxInvokes
    /\ invoked' = Append(invoked, params)
    /\ lastParams' = params
    /\ UNCHANGED <<env, queueVars, sequentialVars, stalled, timers, expiries>>
    /\ IF stalled
       THEN /\ pending' = TRUE
            /\ UNCHANGED <<callbacks, stack>>
       ELSE /\ callbacks' = callback(lastParams', "invoke", Len(invoked'))
            /\ stack' = stack + 1
            /\ pending' = pending

\* The callback returns: invoke goes on, sets stalled and arms the timer.
CallbackReturns ==
    /\ stack > 0
    /\ stack' = stack - 1
    /\ stalled' = TRUE
    /\ timers' = timers + 1
    /\ UNCHANGED <<env, queueVars, sequentialVars, lastParams, pending, invoked,
                   callbacks, expiries>>

\* The callback throws: the rest of invoke is not run.
CallbackThrows ==
    /\ stack > 0
    /\ stack' = stack - 1
    /\ UNCHANGED <<env, queueVars, sequentialVars, lastParams, stalled, pending,
                   timers, invoked, callbacks, expiries>>

\* The timer forgets the invoke calls that arrived while stalled.
TimerExpires_Drop ==
    /\ timers > 0
    /\ stack = 0
    /\ timers' = timers - 1
    /\ expiries' = expiries + 1
    /\ stalled' = FALSE
    /\ pending' = FALSE
    /\ UNCHANGED <<callbacks, stack>>
    /\ UNCHANGED <<env, queueVars, sequentialVars, lastParams, invoked>>

\* The setTimeout callback, run by the event loop when no other code runs.
TimerExpires ==
    /\ timers > 0
    /\ stack = 0
    /\ timers' = timers - 1
    /\ expiries' = expiries + 1
    /\ stalled' = FALSE
    /\ pending' = FALSE
    /\ IF pending
       THEN /\ callbacks' = callback(lastParams, "timer", Len(invoked))
            /\ stack' = stack + 1
       ELSE UNCHANGED <<callbacks, stack>>
    /\ UNCHANGED <<env, queueVars, sequentialVars, lastParams, invoked>>

----------------------------------------------------------------------------
(* Specifications *)

InitCommon ==
    /\ queue = <<>>
    /\ calls = <<>>
    /\ started = <<>>
    /\ lastParams = undefined
    /\ stalled = FALSE
    /\ pending = FALSE
    /\ timers = 0
    /\ stack = 0
    /\ invoked = <<>>
    /\ callbacks = <<>>
    /\ expiries = 0
    /\ concurrency = 0
    /\ jobs = <<>>
    /\ runs = <<>>
    /\ alerts = {}
    /\ applied = [t \in Tenants |-> [id \in Ids |-> 0]]
    /\ midStep = [t \in Tenants |-> FALSE]
    /\ interrupted = [t \in Tenants |-> FALSE]
    /\ activations = <<>>
    /\ holders = <<>>
    /\ requeues = <<>>
    /\ steps = [called |-> FALSE, k |-> 0, out |-> <<>>]

\* Overlap: several jobs of one tenant that has two migrations to run.
Init ==
    /\ InitCommon
    /\ registry = <<1, 2>>
    /\ appliedIds = [t \in Tenants |-> {}]
    /\ jobLimit = MaxJobs
    /\ appIds = {1}
    /\ perTenant = MaxJobs
    /\ failsLeft = MaxFaults
    /\ stallsLeft = MaxFaults

Next ==
    \/ init
    \/ \E t \in Tenants : Enqueue(t)
    \/ \E j \in 1..Len(jobs) : Claim(j)
    \/ \E j \in 1..Len(jobs) : RunnerApply(j)
    \/ \E j \in 1..Len(jobs) : RunnerPersist(j)
    \/ \E j \in 1..Len(jobs) : StepFail(j)
    \/ \E j \in 1..Len(jobs) : Complete(j)
    \/ \E j \in 1..Len(jobs) : StalledCheck(j)

Spec == Init /\ [][Next]_vars

\* Retry: every failure and every stall the retry policy admits.
InitRetry ==
    /\ InitCommon
    /\ registry = <<1, 2>>
    /\ appliedIds = [t \in Tenants |-> {}]
    /\ jobLimit = RetryJobs
    /\ appIds = {1}
    /\ perTenant = RetryJobs
    /\ failsLeft = MaxFails
    /\ stallsLeft = MaxStalls

SpecRetry == InitRetry /\ [][Next]_vars

\* The retry scenario with the scheduling the process gives: init() is
\* called, a consumer with a free slot takes a waiting job, and a handler
\* that is running goes on until it settles or its worker dies. Step
\* failures and worker deaths are not owed to anyone.
FairRetry ==
    /\ WF_vars(init)
    /\ \A j \in 1..RetryJobs :
          /\ WF_vars(Claim(j))
          /\ WF_vars(RunnerApply(j))
          /\ WF_vars(RunnerPersist(j))
          /\ WF_vars(Complete(j))

SpecRetryFair == InitRetry /\ [][Next]_vars /\ FairRetry

\* Load: more jobs than consumer slots, one job per tenant; the first tenant
\* has a migration to run, the others are current.
InitLoad ==
    /\ InitCommon
    /\ registry = <<1>>
    /\ appliedIds = [t \in Tenants |-> IF t = 1 THEN {} ELSE {1}]
    /\ jobLimit = MaxLoadJobs
    /\ appIds = 1..MaxLoadJobs
    /\ perTenant = 1
    /\ failsLeft = LoadFails
    /\ stallsLeft = LoadStalls

SpecLoad == InitLoad /\ [][Next]_vars

\* Registry: stepsFor on every registry order and every applied prefix.
StepsForPrefix(k) ==
    /\ k \in 0..Len(registry)
    /\ steps' = [called |-> TRUE, k |-> k,
                 out |-> stepsFor(registry, Range(SubSeq(registry, 1, k)))]
    /\ UNCHANGED <<env, utils, concurrency, jobs, runs, appliedIds, alerts, applied,
                   midStep, activations, holders, requeues, interrupted,
                   failsLeft, stallsLeft>>

InitRegistry ==
    /\ InitCommon
    /\ registry \in InjectiveSeqs(Ids)
    /\ appliedIds = [t \in Tenants |-> {}]
    /\ jobLimit = 0
    /\ appIds = {}
    /\ perTenant = 0
    /\ failsLeft = 0
    /\ stallsLeft = 0

NextRegistry == \E k \in 0..MaxIds : StepsForPrefix(k)

SpecRegistry == InitRegistry /\ [][NextRegistry]_vars

\* The utilities on their own: no queue is started.
InitUtils ==
    /\ InitCommon
    /\ registry = <<>>
    /\ appliedIds = [t \in Tenants |-> {}]
    /\ jobLimit = 0
    /\ appIds = {}
    /\ perTenant = 0
    /\ failsLeft = 0
    /\ stallsLeft = 0

\* Callers of a sequential wrapper, fn, and the wrapper's closures.
NextSequential ==
    \/ \E params \in SeqParams : result(params)
    \/ \E c \in 1..Len(calls), value \in ReturnValues :
          FnSettles(c, "fulfilled", value)
    \/ \E c \in 1..Len(calls), value \in RejectionValues :
          FnSettles(c, "rejected", value)
    \/ Resume

SpecSequential == InitUtils /\ [][NextSequential]_vars

\* Every invocation of fn settles, and a closure whose await is over goes on.
FairSequential ==
    /\ WF_vars(\/ \E c \in 1..Len(calls), value \in ReturnValues :
                      FnSettles(c, "fulfilled", value)
               \/ \E c \in 1..Len(calls), value \in RejectionValues :
                      FnSettles(c, "rejected", value))
    /\ WF_vars(Resume)

SpecSequentialFair == SpecSequential /\ FairSequential

\* Callers of a throttle wrapper, the callback, and the timer.
NextThrottle ==
    \/ \E params \in ThrottleParams : invoke(params)
    \/ CallbackReturns
    \/ CallbackThrows
    \/ TimerExpires

SpecThrottle == InitUtils /\ [][NextThrottle]_vars

\* The callback is synchronous code that ends, and an armed timer expires.
FairThrottle ==
    /\ WF_vars(CallbackReturns \/ CallbackThrows)
    /\ WF_vars(TimerExpires)

SpecThrottleFair == SpecThrottle /\ FairThrottle

----------------------------------------------------------------------------
(* Claims *)

JobIds == 1..Len(jobs)

JobsOf(t) == {j \in JobIds : jobs[j].appId = t}

\* C1: in every reachable state of a worker process that called init(), the
\* number of Active jobs is at most MIGRATION_CONCURRENCY.
C1_ConcurrencyBound == Cardinality(ActiveJobs) <= MIGRATION_CONCURRENCY

\* All slots are taken, one job has to wait, and one job is on a later attempt.
C1_Witness ==
    /\ Cardinality(ActiveJobs) = MIGRATION_CONCURRENCY
    /\ \E j \in JobIds : jobs[j].status = "Waiting"
    /\ \E j \in ActiveJobs : activations[j] > 1

\* C2: for every tenant, at most one job carrying its id is Active.
C2_PerTenantExclusive ==
    \A t \in Tenants : Cardinality(JobsOf(t) \cap ActiveJobs) <= 1

\* C3: a job that never stalls and fails on every attempt becomes Active
\* exactly MAX_ATTEMPTS times and is then Failed: not Failed earlier, and not
\* Waiting or Active after the last failure.
C3_RetryBound ==
    \A j \in JobIds :
        jobs[j].stalledCounter = 0 =>
            /\ activations[j] <= MAX_ATTEMPTS
            /\ jobs[j].status = "Failed" =>
                   activations[j] = MAX_ATTEMPTS /\ jobs[j].attemptsMade = MAX_ATTEMPTS
            /\ jobs[j].attemptsMade = MAX_ATTEMPTS => jobs[j].status = "Failed"

C3_Witness ==
    \E j \in JobIds :
        /\ jobs[j].status = "Failed"
        /\ jobs[j].stalledCounter = 0
        /\ activations[j] = MAX_ATTEMPTS

\* C4: stall detection re-queues a job at most three times (maxStalledCount);
\* the stall detection after the third re-queue marks it Stalled, and a
\* Stalled job is not re-queued.
C4_StallBound ==
    \A j \in JobIds :
        /\ requeues[j] <= MAX_ATTEMPTS
        /\ jobs[j].status = "Stalled" =>
               requeues[j] = MAX_ATTEMPTS /\ jobs[j].stalledCounter = MAX_ATTEMPTS + 1
        /\ jobs[j].stalledCounter > MAX_ATTEMPTS => jobs[j].status = "Stalled"

C4_Witness ==
    \E j \in JobIds :
        /\ jobs[j].status = "Stalled"
        /\ requeues[j] = MAX_ATTEMPTS
        /\ jobs[j].attemptsMade = 0

\* Waiting periods of a job so far: the first, one per retry, one per stall
\* re-queue.
WaitingPeriods(j) ==
    1 + requeues[j] + jobs[j].attemptsMade
      - (IF jobs[j].status = "Failed" THEN 1 ELSE 0)

C6_AlertOnTerminal ==
    \A j \in JobIds :
        jobs[j].status \in {"Failed", "Stalled"} =>
            [id |-> jobs[j].id, reason |-> jobs[j].failedReason] \in alerts

\* A job that was re-queued after a stall and then exhausted its retries.
C6_Witness ==
    \E j \in JobIds :
        /\ jobs[j].status = "Failed"
        /\ requeues[j] > 0
        /\ [id |-> jobs[j].id, reason |-> "step"] \in alerts

\* C7: no step of the system removes an id from a tenant's appliedIds.
C7_AppliedIdsMonotonic ==
    [][\A t \in Tenants : appliedIds[t] \subseteq appliedIds'[t]]_vars

\* Two runs of one tenant overlapped: one persisted every id, the other read
\* the state before that and was turned away with a conflict.
C7_Witness ==
    \E j \in JobIds :
        /\ jobs[j].failedReason = "conflict"
        /\ appliedIds[jobs[j].appId] = Range(registry)
        /\ Len(registry) > 1

\* C8: for a tenant whose runs were interrupted between two steps (and never
\* between applying a step and persisting its id), no step is applied twice,
\* none is skipped, none is missing from appliedIds, and once a run has
\* succeeded every registry step has been applied exactly once.
C8_ResumeExactlyOnce ==
    \A t \in Tenants :
        (interrupted[t] /\ ~midStep[t]) =>
            /\ \A i \in 1..Len(registry) : applied[t][registry[i]] <= 1
            /\ \A i \in 2..Len(registry) :
                   applied[t][registry[i]] > 0 => applied[t][registry[i - 1]] > 0
            /\ \A i \in 2..Len(registry) :
                   applied[t][registry[i]] > 0 => registry[i - 1] \in appliedIds[t]
            /\ (\E j \in JobsOf(t) : jobs[j].status = "Completed") =>
                   /\ appliedIds[t] = Range(registry)
                   /\ \A i \in 1..Len(registry) : applied[t][registry[i]] = 1

\* The handler of job j fails in this step.
HandlerFails(j) ==
    /\ j \in ActiveJobs
    /\ jobs'[j].attemptsMade = jobs[j].attemptsMade + 1

\* C9: when a step fails the run stops there: nothing more is applied, the
\* ids of the steps before it are persisted, its own id is not, and the job
\* gets a handler failure.
C9_StopAtFailure ==
    [][\A j \in JobIds :
          HandlerFails(j) =>
              /\ runs'[j] = NoRun
              /\ applied' = applied
              /\ LocalState(runs[j]) \subseteq appliedIds'[jobs[j].appId]
              /\ Head(runs[j].todo) \notin appliedIds'[jobs[j].appId]
              /\ jobs'[j].status \in {"Waiting", "Failed"}
              /\ jobs'[j].failedReason # NoReason]_vars

\* C10: for every registry order and every k, stepsFor of the state holding
\* the first k ids is the rest of the registry, in registry order.
C10_StepsForSuffix ==
    steps.called => steps.out = SubSeq(registry, steps.k + 1, Len(registry))

\* A full registry whose last two ids are out of id order, queried for them.
C10_Witness ==
    /\ steps.called
    /\ Len(registry) = MaxIds
    /\ registry[MaxIds] < registry[MaxIds - 1]
    /\ steps.k = MaxIds - 2

\* Job j takes a step: it is claimed, or its run or its record changes.
StepOf(j) == jobs'[j] # jobs[j] \/ runs'[j] # runs[j]

\* C11: a run that starts when appliedIds holds every registry id gets the
\* empty steps list, and no step of such a run applies a migration or
\* changes the persisted state; the run ends without a handler failure.
C11_CurrentIsNoop ==
    [][\A j \in JobIds :
          /\ (jobs[j].status = "Waiting" /\ jobs'[j].status = "Active"
                /\ Range(registry) \subseteq appliedIds[jobs[j].appId]) =>
                 (runs'[j].todo = <<>> /\ appliedIds' = appliedIds
                    /\ applied' = applied)
          /\ (j \in ActiveJobs /\ runs[j].todo = <<>> /\ StepOf(j)) =>
                 (appliedIds' = appliedIds /\ applied' = applied
                    /\ jobs'[j].attemptsMade = jobs[j].attemptsMade)]_vars

\* A tenant that was current from the start has had two runs in succession
\* (the second after a stall re-queue); nothing was applied for it.
C11_Witness ==
    \E j \in JobIds :
        /\ jobs[j].appId # 1
        /\ activations[j] = 2
        /\ jobs[j].status = "Completed"
        /\ appliedIds[jobs[j].appId] = Range(registry)
        /\ \A id \in Ids : applied[jobs[j].appId][id] = 0

\* C15: a job's status changes only by Waiting -> Active and by Active ->
\* Completed, Waiting, Failed or Stalled; so Completed, Failed and Stalled
\* are never left.
C15_JobStateMachine ==
    [][\A j \in JobIds :
          jobs'[j].status # jobs[j].status =>
              \/ jobs[j].status = "Waiting" /\ jobs'[j].status = "Active"
              \/ /\ jobs[j].status = "Active"
                 /\ jobs'[j].status \in {"Completed", "Waiting", "Failed", "Stalled"}]_vars

\* A job that was retried after failures and ended Stalled.
C15_Witness ==
    \E j \in JobIds :
        /\ jobs[j].status = "Stalled"
        /\ jobs[j].attemptsMade = MAX_ATTEMPTS - 1

Terminal(j) == jobs[j].status \in {"Completed", "Failed", "Stalled"}

\* C19: a job is claimed at most maxAttempts + maxStalledCount times, and
\* under fair scheduling every enqueued job reaches Completed, Failed or
\* Stalled.
C19_EveryJobEnds ==
    /\ [](\A j \in JobIds : activations[j] <= MAX_ATTEMPTS + maxStalledCount)
    /\ \A j \in 1..RetryJobs : (j \in JobIds) ~> (j \in JobIds /\ Terminal(j))

\* A job that met failures and stalls and ended after the last claim allowed.
C19_Witness ==
    \E j \in JobIds :
        /\ Terminal(j)
        /\ activations[j] = MAX_ATTEMPTS + maxStalledCount
        /\ jobs[j].attemptsMade > 0
        /\ requeues[j] > 0

\* C12: at most one invocation of fn is in flight, and an invocation begins
\* only when the one begun before it has settled, whenever the calls are made.
C12_OneInFlight ==
    /\ Cardinality(InFlight) <= 1
    /\ \A i \in 2..Len(started) : calls[started[i - 1].call].fn \in FnSettled

\* Three invocations have begun, for calls made while the first was in flight
\* and between its settling and the closure going on.
C12_Witness ==
    /\ Len(started) = 3
    /\ \E c \in 1..Len(calls) : calls[c].at = "pending"
    /\ \E c \in 1..Len(calls) : calls[c].at = "completion"

\* C17: fn is invoked in call order with each call's params, and a settled
\* promise has the outcome of its own invocation: resolved with the value fn
\* fulfilled with, rejected with the value fn rejected with.
C17_OwnOutcome ==
    /\ \A i \in 1..Len(started) :
          started[i] = [call |-> i, params |-> calls[i].params]
    /\ \A c \in 1..Len(calls) :
          calls[c].promise # "pending" =>
              /\ calls[c].settled = calls[c].value
              /\ calls[c].fn = "fulfilled" => calls[c].promise = "resolved"
              /\ calls[c].fn = "rejected" => calls[c].promise = "rejected"

AllSettled == \A c \in 1..Len(calls) : calls[c].promise # "pending"

\* C18: if every invocation settles, every call has fn invoked for it and
\* its promise settled, whichever invocations rejected; the queue is empty
\* when all calls have settled.
C18_QueueDrains ==
    /\ [](AllSettled => queue = <<>>)
    /\ [](\A c \in 1..Len(calls) :
             calls[c].promise # "pending" => calls[c].fn \in FnSettled)
    /\ \A c \in 1..MaxCalls :
          (c <= Len(calls)) ~> (c <= Len(calls) /\ calls[c].promise # "pending")

\* Every call is settled, the first invocation having rejected.
C18_Witness ==
    /\ Len(calls) = MaxCalls
    /\ AllSettled
    /\ calls[1].fn = "rejected"
    /\ calls[1].promise = "rejected"
    /\ calls[MaxCalls].at # "idle"

Last(s) == s[Len(s)]

\* C13: once the invoke calls have ended, the last callback invocation was
\* made after the last invoke call and carries its params.
C13_FinalInvocation ==
    <>[](invoked # <<>> =>
            /\ callbacks # <<>>
            /\ Last(callbacks).n = Len(invoked)
            /\ Last(callbacks).params = Last(invoked))

\* The last invoke call arrived while stalled, with params of its own, and the
\* timer has passed them to the callback.
C13_Witness ==
    /\ Len(invoked) = MaxInvokes
    /\ Last(invoked) # invoked[Len(invoked) - 1]
    /\ timers = 0
    /\ stack = 0
    /\ Last(callbacks).via = "timer"
    /\ Last(callbacks).params = Last(invoked)

\* C14: every callback invocation, by invoke or by the timer, receives the
\* params of the latest invoke call made before it.
C14_LatestParams ==
    \A i \in 1..Len(callbacks) :
        /\ callbacks[i].n \in 1..Len(invoked)
        /\ callbacks[i].params = invoked[callbacks[i].n]

\* The timer has invoked the callback after two invoke calls with different
\* params arrived while stalled.
C14_Witness ==
    \E i \in 1..Len(callbacks) :
        /\ callbacks[i].via = "timer"
        /\ i > 1
        /\ callbacks[i].n = callbacks[i - 1].n + 2
        /\ invoked[callbacks[i].n] # invoked[callbacks[i].n - 1]

\* A step in which invoke(...params) is called by a caller.
InvokeStep == invoked' # invoked

\* C16: an invoke made while not stalled calls the callback in the same step;
\* a timer expires between any two callback invocations; a timer expiry
\* causes at most one callback invocation.
C16_MinDelayBetween ==
    [][/\ (InvokeStep /\ ~stalled) =>
            (Len(callbacks') = Len(callbacks) + 1 /\ Last(callbacks').via = "invoke")
       /\ (callbacks' # callbacks /\ callbacks # <<>>) =>
            Last(callbacks').expiries > Last(callbacks).expiries
       /\ expiries' # expiries => Len(callbacks') <= Len(callbacks) + 1]_vars

====
